---- MODULE Spec2Model ----
(***************************************************************************)
(* Model of src/src/preprocessor/preprocessing.py: the FileIO save/load    *)
(* helpers and Utilities.convert_raw_data.                                 *)
(*                                                                         *)
(* Strings are sequences of symbols.  The symbols "json" and "parquet"     *)
(* stand for those literal substrings, "." and "/" for themselves and "a"  *)
(* for any other character.                                                *)
(***************************************************************************)
EXTENDS Integers, Sequences, FiniteSets, TLC

VARIABLES
    dirs,       \* file system: the set of directories (resolved paths)
    files,      \* file system: resolved path -> file content
    prevDirs,   \* dirs as they were when the last call started
    prevFiles,  \* files as they were when the last call started
    call,       \* the last FileIO call: arguments, normalized path, outcome
    ncalls,     \* number of FileIO calls made so far
    pc,         \* position of the pure-function specifications
    arg,        \* their input
    res         \* their result

vars == <<dirs, files, prevDirs, prevFiles, call, ncalls, pc, arg, res>>

ioVars == <<dirs, files, prevDirs, prevFiles, call, ncalls>>

pureVars == <<pc, arg, res>>

\* ------------------------------------------------------------------ bounds

MaxPathLen == 3

MaxCalls == 2

MaxRows == 2

MaxThumbs == 2

\* ----------------------------------------------------------------- strings

Chars == {"a", ".", "/", "json", "parquet"}

RECURSIVE StringsOfLen(_)
StringsOfLen(n) ==
    IF n = 0 THEN {<< >>}
    ELSE {Append(s, c) : s \in StringsOfLen(n - 1), c \in Chars}

AllPaths == UNION {StringsOfLen(n) : n \in 1..MaxPathLen}

\* str.endswith(suffix) for a one-symbol suffix
EndsWith(s, suffix) == Len(s) >= 1 /\ s[Len(s)] = suffix

\* str.rfind(c), 1-based, 0 when c does not occur
RFind(s, c) ==
    IF \E i \in 1..Len(s) : s[i] = c
    THEN CHOOSE i \in 1..Len(s) : s[i] = c /\ \A j \in (i + 1)..Len(s) : s[j] # c
    ELSE 0

\* os.path.splitext(p)[0]: the extension starts at the last dot of the last
\* segment, unless only dots precede it in that segment
SplitextPrefix(p) ==
    LET sep == RFind(p, "/")
        dot == RFind(p, ".")
    IN  IF dot > sep /\ \E i \in (sep + 1)..(dot - 1) : p[i] # "."
        THEN SubSeq(p, 1, dot - 1)
        ELSE p

\* os.path.basename(p)
Basename(p) == SubSeq(p, RFind(p, "/") + 1, Len(p))

StartsWithAt(s, i, old) ==
    /\ i + Len(old) - 1 <= Len(s)
    /\ SubSeq(s, i, i + Len(old) - 1) = old

\* str.replace(old, ''): every non-overlapping occurrence, left to right
RECURSIVE ReplaceFrom(_, _, _)
ReplaceFrom(s, i, old) ==
    IF i > Len(s) THEN << >>
    ELSE IF Len(old) > 0 /\ StartsWithAt(s, i, old)
         THEN ReplaceFrom(s, i + Len(old), old)
         ELSE <<s[i]>> \o ReplaceFrom(s, i + 1, old)

Replace(s, old) == ReplaceFrom(s, 1, old)

\* ------------------------------------------------- extension normalization

RenameWithoutDot(file_path, extension) == SplitextPrefix(file_path) \o <<extension>>

\* FileIO._rename_file_extension
RenameFileExtension(file_path, extension) ==
    SplitextPrefix(file_path) \o <<".", extension>>

\* save_as_parquet, lines 38-39
ParquetPath(file_path) ==
    IF ~EndsWith(file_path, "parquet")
    THEN RenameFileExtension(file_path, "parquet")
    ELSE file_path

\* save_as_json, lines 106-107
JsonPath(file_path) ==
    IF ~EndsWith(file_path, "json")
    THEN RenameFileExtension(file_path, "json")
    ELSE file_path

\* ------------------------------------------------------------- file system
\* A resolved path is the sequence of its components; an absolute path starts
\* with the component ROOT, a relative one is resolved against the working
\* directory << >>.  Empty and "." components are skipped.

ROOT == <<"/">>

RECURSIVE Split(_)
\* str.split('/')
Split(s) ==
    LET first == CHOOSE i \in 1..(Len(s) + 1) :
                    /\ (i = Len(s) + 1 \/ s[i] = "/")
                    /\ \A j \in 1..(i - 1) : s[j] # "/"
    IN  IF first = Len(s) + 1 THEN <<s>>
        ELSE <<SubSeq(s, 1, first - 1)>> \o Split(SubSeq(s, first + 1, Len(s)))

Resolve(path) ==
    LET comps == SelectSeq(Split(path), LAMBDA c : c # << >> /\ c # <<".">>)
    IN  IF Len(path) >= 1 /\ path[1] = "/" THEN <<ROOT>> \o comps ELSE comps

Parent(rp) == SubSeq(rp, 1, Len(rp) - 1)

Prefixes(rp) == {SubSeq(rp, 1, k) : k \in 0..Len(rp)}

IsFile(rp, F) == rp \in DOMAIN F

\* os.path.exists
Exists(path, D, F) == Resolve(path) \in D \/ IsFile(Resolve(path), F)

RemoveFile(rp, F) == [q \in DOMAIN F \ {rp} |-> F[q]]

PutFile(rp, content, F) ==
    [q \in DOMAIN F \cup {rp} |-> IF q = rp THEN content ELSE F[q]]

\* pathlib.Path(dir_structure).mkdir(parents=True, exist_ok=True)
Mkdir(dir_structure, D, F) ==
    LET target == Resolve(dir_structure)
    IN  IF IsFile(target, F)
        THEN [outcome |-> "FileExistsError", dirs |-> D, files |-> F]
        ELSE IF \E q \in Prefixes(target) : IsFile(q, F)
        THEN [outcome |-> "NotADirectoryError", dirs |-> D, files |-> F]
        ELSE [outcome |-> "ok", dirs |-> D \cup Prefixes(target), files |-> F]

\* os.remove
OsRemove(file_path, D, F) ==
    IF IsFile(Resolve(file_path), F)
    THEN [outcome |-> "ok", dirs |-> D, files |-> RemoveFile(Resolve(file_path), F)]
    ELSE [outcome |-> "IsADirectoryError", dirs |-> D, files |-> F]

\* opening file_path for writing: "ok" or the error open() raises
OpenForWrite(file_path, D, F) ==
    LET rp == Resolve(file_path)
    IN  IF rp \in D THEN "IsADirectoryError"
        ELSE IF IsFile(Parent(rp), F) THEN "NotADirectoryError"
        ELSE IF Parent(rp) \notin D THEN "FileNotFoundError"
        ELSE "ok"

CheckFilePathNoRaise(file_path, overwrite, D, F) ==
    IF Exists(file_path, D, F)
    THEN OsRemove(file_path, D, F)
    ELSE Mkdir(Replace(file_path, Basename(file_path)), D, F)

CheckFilePathAlwaysRaises(file_path, overwrite, D, F) ==
    IF Exists(file_path, D, F)
    THEN [outcome |-> "FileExistsError", dirs |-> D, files |-> F]
    ELSE Mkdir(Replace(file_path, Basename(file_path)), D, F)

\* FileIO._check_file_path
CheckFilePath(file_path, overwrite, D, F) ==
    IF Exists(file_path, D, F) /\ overwrite = FALSE
    THEN [outcome |-> "FileExistsError", dirs |-> D, files |-> F]
    ELSE IF Exists(file_path, D, F)
    THEN OsRemove(file_path, D, F)
    ELSE LET file_name == Basename(file_path)
             dir_structure == Replace(file_path, file_name)
         IN  Mkdir(dir_structure, D, F)

\* ------------------------------------------------------------ Python values
\* A value is [k, v]: an int (v = <<n>>), a list, a numpy array, or None/NaN.
\* A Record is a function from field names to values; data handed to a save
\* is [shape, recs]: a single Record ("dict") or a Record Collection ("list").

PyInt(n) == [k |-> "int", v |-> <<n>>]

PyList(s) == [k |-> "list", v |-> s]

NdArray(s) == [k |-> "ndarray", v |-> s]

PyNone == [k |-> "none", v |-> << >>]

DictData(rec) == [shape |-> "dict", recs |-> <<rec>>]

ListData(recs) == [shape |-> "list", recs |-> recs]

NoData == [shape |-> "none", recs |-> << >>]

\* the order in which the fields of a Record are written and read
FieldOrder == <<"id", "v", "tags", "content_vector", "keywords">>

FieldsOf(rec) == SelectSeq(FieldOrder, LAMBDA f : f \in DOMAIN rec)

\* --------------------------------------------------------------- JSON text
\* The text is a sequence of tokens [t, s, n]; white space is not modelled.

Punct(c) == [t |-> c, s |-> "", n |-> 0]

StrTok(x) == [t |-> "str", s |-> x, n |-> 0]

NumTok(x) == [t |-> "num", s |-> "", n |-> x]

RECURSIVE JoinInts(_)
JoinInts(xs) ==
    IF Len(xs) = 0 THEN << >>
    ELSE IF Len(xs) = 1 THEN <<NumTok(xs[1])>>
    ELSE <<NumTok(xs[1]), Punct(",")>> \o JoinInts(Tail(xs))

\* json encoding of one value: [ok, toks]; numpy arrays are not serializable
\* (TypeError), and toks is what has been written when the error is raised
DumpValue(val) ==
    CASE val.k = "int"  -> [ok |-> TRUE, toks |-> <<NumTok(val.v[1])>>]
      [] val.k = "none" -> [ok |-> TRUE, toks |-> <<Punct("null")>>]
      [] val.k = "list" -> [ok |-> TRUE,
                            toks |-> <<Punct("[")>> \o JoinInts(val.v) \o <<Punct("]")>>]
      [] OTHER          -> [ok |-> FALSE, toks |-> << >>]

RECURSIVE DumpFields(_, _)
DumpFields(rec, fs) ==
    IF Len(fs) = 0 THEN [ok |-> TRUE, toks |-> << >>]
    ELSE LET head == DumpValue(rec[fs[1]])
             pre  == <<StrTok(fs[1]), Punct(":")>> \o head.toks
         IN  IF ~head.ok THEN [ok |-> FALSE, toks |-> pre]
             ELSE IF Len(fs) = 1 THEN [ok |-> TRUE, toks |-> pre]
             ELSE LET rest == DumpFields(rec, Tail(fs))
                  IN  [ok |-> rest.ok, toks |-> pre \o <<Punct(",")>> \o rest.toks]

DumpRecord(rec) ==
    LET body == DumpFields(rec, FieldsOf(rec))
    IN  IF body.ok
        THEN [ok |-> TRUE, toks |-> <<Punct("{")>> \o body.toks \o <<Punct("}")>>]
        ELSE [ok |-> FALSE, toks |-> <<Punct("{")>> \o body.toks]

RECURSIVE DumpRecords(_)
DumpRecords(recs) ==
    IF Len(recs) = 0 THEN [ok |-> TRUE, toks |-> << >>]
    ELSE LET head == DumpRecord(recs[1])
         IN  IF ~head.ok THEN head
             ELSE IF Len(recs) = 1 THEN head
             ELSE LET rest == DumpRecords(Tail(recs))
                  IN  [ok |-> rest.ok, toks |-> head.toks \o <<Punct(",")>> \o rest.toks]

\* json.dump(data, f, indent=indent)
JsonDump(data) ==
    IF data.shape = "dict" THEN DumpRecord(data.recs[1])
    ELSE LET body == DumpRecords(data.recs)
         IN  IF body.ok
             THEN [ok |-> TRUE, toks |-> <<Punct("[")>> \o body.toks \o <<Punct("]")>>]
             ELSE [ok |-> FALSE, toks |-> <<Punct("[")>> \o body.toks]

ParseFail == [ok |-> FALSE, val |-> PyNone, next |-> 0]

TokIs(toks, i, c) == i <= Len(toks) /\ toks[i].t = c

\* the ints of a json array, from toks[i] up to the closing bracket
RECURSIVE ParseInts(_, _, _)
ParseInts(toks, i, acc) ==
    IF TokIs(toks, i, "]") /\ Len(acc) = 0
    THEN [ok |-> TRUE, val |-> PyList(acc), next |-> i + 1]
    ELSE IF ~TokIs(toks, i, "num") THEN ParseFail
    ELSE IF TokIs(toks, i + 1, "]")
         THEN [ok |-> TRUE, val |-> PyList(Append(acc, toks[i].n)), next |-> i + 2]
    ELSE IF TokIs(toks, i + 1, ",")
         THEN ParseInts(toks, i + 2, Append(acc, toks[i].n))
    ELSE ParseFail

ParseValue(toks, i) ==
    IF TokIs(toks, i, "num") THEN [ok |-> TRUE, val |-> PyInt(toks[i].n), next |-> i + 1]
    ELSE IF TokIs(toks, i, "null") THEN [ok |-> TRUE, val |-> PyNone, next |-> i + 1]
    ELSE IF TokIs(toks, i, "[") THEN ParseInts(toks, i + 1, << >>)
    ELSE ParseFail

\* the members of a json object, from toks[i] up to the closing brace:
\* [ok, rec, next]
RECURSIVE ParseMembers(_, _, _)
ParseMembers(toks, i, acc) ==
    IF ~(TokIs(toks, i, "str") /\ TokIs(toks, i + 1, ":"))
    THEN [ok |-> FALSE, rec |-> acc, next |-> 0]
    ELSE LET pv  == ParseValue(toks, i + 2)
             rec == (toks[i].s :> pv.val) @@ acc
         IN  IF ~pv.ok THEN [ok |-> FALSE, rec |-> acc, next |-> 0]
             ELSE IF TokIs(toks, pv.next, "}")
                  THEN [ok |-> TRUE, rec |-> rec, next |-> pv.next + 1]
             ELSE IF TokIs(toks, pv.next, ",")
                  THEN ParseMembers(toks, pv.next + 1, rec)
             ELSE [ok |-> FALSE, rec |-> acc, next |-> 0]

ParseRecord(toks, i) ==
    IF TokIs(toks, i, "{") /\ TokIs(toks, i + 1, "}")
    THEN [ok |-> TRUE, rec |-> << >>, next |-> i + 2]
    ELSE IF TokIs(toks, i, "{") THEN ParseMembers(toks, i + 1, << >>)
    ELSE [ok |-> FALSE, rec |-> << >>, next |-> 0]

\* the objects of a json array of objects: [ok, recs, next]
RECURSIVE ParseRecords(_, _, _)
ParseRecords(toks, i, acc) ==
    IF TokIs(toks, i, "]") /\ Len(acc) = 0
    THEN [ok |-> TRUE, recs |-> acc, next |-> i + 1]
    ELSE LET pr == ParseRecord(toks, i)
         IN  IF ~pr.ok THEN [ok |-> FALSE, recs |-> acc, next |-> 0]
             ELSE IF TokIs(toks, pr.next, "]")
                  THEN [ok |-> TRUE, recs |-> Append(acc, pr.rec), next |-> pr.next + 1]
             ELSE IF TokIs(toks, pr.next, ",")
                  THEN ParseRecords(toks, pr.next + 1, Append(acc, pr.rec))
             ELSE [ok |-> FALSE, recs |-> acc, next |-> 0]

\* json.load(f): [ok, data]; ok is FALSE when the text is not a json document
JsonLoad(toks) ==
    IF TokIs(toks, 1, "{")
    THEN LET pr == ParseRecord(toks, 1)
         IN  IF pr.ok /\ pr.next = Len(toks) + 1
             THEN [ok |-> TRUE, data |-> DictData(pr.rec)]
             ELSE [ok |-> FALSE, data |-> NoData]
    ELSE IF TokIs(toks, 1, "[")
    THEN LET pl == ParseRecords(toks, 2, << >>)
         IN  IF pl.ok /\ pl.next = Len(toks) + 1
             THEN [ok |-> TRUE, data |-> ListData(pl.recs)]
             ELSE [ok |-> FALSE, data |-> NoData]
    ELSE [ok |-> FALSE, data |-> NoData]

\* ------------------------------------------------------------ parquet files
\* A DataFrame is [cols, rows]: the set of columns and, per row, a function
\* from the columns to cells.  A parquet file stores typed cells.

vector_labels == {"content_vector", "image_vector", "content_embedding", "keywords"}

Columns(recs) == UNION {DOMAIN recs[i] : i \in 1..Len(recs)}

\* FileIO._convert_toDataFrame: the union of the fields is the column set, a
\* field a record lacks is a null cell
ConvertToDataFrame(recs) ==
    [cols |-> Columns(recs),
     rows |-> [i \in 1..Len(recs) |->
                 [c \in Columns(recs) |->
                     IF c \in DOMAIN recs[i] THEN recs[i][c] ELSE PyNone]]]

StoreCell(val) ==
    CASE val.k = "int"  -> [k |-> "INT64", v |-> val.v]
      [] val.k = "none" -> [k |-> "NULL", v |-> << >>]
      [] OTHER          -> [k |-> "LIST", v |-> val.v]

ReadCell(cell) ==
    CASE cell.k = "INT64" -> PyInt(cell.v[1])
      [] cell.k = "NULL"  -> PyNone
      [] OTHER            -> NdArray(cell.v)

JsonFile(toks) == [fmt |-> "json", toks |-> toks, cols |-> {}, rows |-> << >>]

\* data.to_parquet(file_path, index=False): the file written
ParquetFile(df) ==
    [fmt |-> "parquet", toks |-> << >>, cols |-> df.cols,
     rows |-> [i \in 1..Len(df.rows) |-> [c \in df.cols |-> StoreCell(df.rows[i][c])]]]

\* pd.read_parquet(file_path)
ReadParquet(content) ==
    [cols |-> content.cols,
     rows |-> [i \in 1..Len(content.rows) |->
                 [c \in content.cols |-> ReadCell(content.rows[i][c])]]]

\* x.tolist() of line 79: defined on numpy arrays only
ToList(val) == PyList(val.v)

\* FileIO.load_parquet applied to the content of a file: [outcome, data]
LoadParquetFile(content) ==
    IF content.fmt # "parquet" THEN [outcome |-> "ArrowInvalid", data |-> NoData]
    ELSE LET df == ReadParquet(content)
             labels == vector_labels \cap df.cols
         IN  IF \E i \in 1..Len(df.rows) : \E c \in labels : df.rows[i][c].k # "ndarray"
             THEN [outcome |-> "AttributeError", data |-> NoData]
             ELSE [outcome |-> "ok",
                   data |-> ListData([i \in 1..Len(df.rows) |->
                               [c \in df.cols |->
                                   IF c \in labels THEN ToList(df.rows[i][c])
                                   ELSE df.rows[i][c]]])]

\* FileIO.load_parquet on a path of the file system F
LoadParquetAt(file_path, F) ==
    IF ~IsFile(Resolve(file_path), F)
    THEN [outcome |-> "FileNotFoundError", data |-> NoData]
    ELSE LoadParquetFile(F[Resolve(file_path)])

\* FileIO.load_json on a path of the file system F
LoadJsonAt(file_path, F) ==
    IF ~IsFile(Resolve(file_path), F)
    THEN [outcome |-> "FileNotFoundError", data |-> NoData]
    ELSE IF F[Resolve(file_path)].fmt # "json"
    THEN [outcome |-> "JSONDecodeError", data |-> NoData]
    ELSE LET got == JsonLoad(F[Resolve(file_path)].toks)
         IN  IF got.ok THEN [outcome |-> "ok", data |-> got.data]
             ELSE [outcome |-> "JSONDecodeError", data |-> NoData]

\* ------------------------------------------------------- the save operations
\* Each yields [npath, outcome, dirs, files]: the normalized path, "ok" or the
\* error raised, and the file system the call leaves behind.

\* FileIO.save_as_json
SaveAsJsonResult(file_path, data, overwrite, D, F) ==
    LET np  == JsonPath(file_path)
        chk == CheckFilePath(np, overwrite, D, F)
        opn == OpenForWrite(np, chk.dirs, chk.files)
        enc == JsonDump(data)
    IN  IF chk.outcome # "ok"
        THEN [npath |-> np, outcome |-> chk.outcome, dirs |-> chk.dirs, files |-> chk.files]
        ELSE IF opn # "ok"
        THEN [npath |-> np, outcome |-> opn, dirs |-> chk.dirs, files |-> chk.files]
        ELSE [npath |-> np, outcome |-> IF enc.ok THEN "ok" ELSE "TypeError",
              dirs |-> chk.dirs,
              files |-> PutFile(Resolve(np), JsonFile(enc.toks), chk.files)]

\* FileIO.save_as_parquet; a dict is neither a list nor a DataFrame and has no
\* to_parquet (AttributeError)
SaveAsParquetResult(file_path, data, overwrite, D, F) ==
    LET np  == ParquetPath(file_path)
        chk == CheckFilePath(np, overwrite, D, F)
        opn == OpenForWrite(np, chk.dirs, chk.files)
    IN  IF chk.outcome # "ok"
        THEN [npath |-> np, outcome |-> chk.outcome, dirs |-> chk.dirs, files |-> chk.files]
        ELSE IF data.shape # "list"
        THEN [npath |-> np, outcome |-> "AttributeError", dirs |-> chk.dirs, files |-> chk.files]
        ELSE IF opn # "ok"
        THEN [npath |-> np, outcome |-> opn, dirs |-> chk.dirs, files |-> chk.files]
        ELSE [npath |-> np, outcome |-> "ok", dirs |-> chk.dirs,
              files |-> PutFile(Resolve(np), ParquetFile(ConvertToDataFrame(data.recs)),
                                chk.files)]

\* ------------------------------------------- specification of the Storage Helper

IOPaths ==
    { <<"a">>,
      <<"a", ".", "json">>,
      <<"a", ".", "json", "/", "a">>,
      <<"a", ".", "parquet", "/", "a">>,
      <<"a", "/", "a", "/", "a">> }

\* the paths given to a save and the paths a save writes
LoadPaths == IOPaths \cup {JsonPath(p) : p \in IOPaths} \cup {ParquetPath(p) : p \in IOPaths}

\* [{"v": 1}], {"v": 2, "keywords": [1, 2]}, [{"id": 1, "content_vector": array([1, 2])}]
IOData ==
    { ListData(<<[v |-> PyInt(1)]>>),
      DictData([v |-> PyInt(2), keywords |-> PyList(<<1, 2>>)]),
      ListData(<<[id |-> PyInt(1), content_vector |-> NdArray(<<1, 2>>)]>>) }

NoCall ==
    [op |-> "none", file_path |-> << >>, data |-> NoData, overwrite |-> FALSE,
     npath |-> << >>, outcome |-> "none", ret |-> NoData]

Init ==
    /\ dirs = {<< >>, <<ROOT>>}
    /\ files = << >>
    /\ prevDirs = dirs
    /\ prevFiles = files
    /\ call = NoCall
    /\ ncalls = 0
    /\ pc = "idle"
    /\ arg = << >>
    /\ res = << >>

\* FileIO.save_as_json
SaveAsJson ==
    \E file_path \in IOPaths, data \in IOData, overwrite \in BOOLEAN :
        LET r == SaveAsJsonResult(file_path, data, overwrite, dirs, files)
        IN  /\ ncalls < MaxCalls
            /\ ncalls' = ncalls + 1
            /\ prevDirs' = dirs
            /\ prevFiles' = files
            /\ dirs' = r.dirs
            /\ files' = r.files
            /\ call' = [op |-> "save_as_json", file_path |-> file_path, data |-> data,
                        overwrite |-> overwrite, npath |-> r.npath,
                        outcome |-> r.outcome, ret |-> NoData]
            /\ UNCHANGED pureVars

\* FileIO.save_as_parquet
SaveAsParquet ==
    \E file_path \in IOPaths, data \in IOData, overwrite \in BOOLEAN :
        LET r == SaveAsParquetResult(file_path, data, overwrite, dirs, files)
        IN  /\ ncalls < MaxCalls
            /\ ncalls' = ncalls + 1
            /\ prevDirs' = dirs
            /\ prevFiles' = files
            /\ dirs' = r.dirs
            /\ files' = r.files
            /\ call' = [op |-> "save_as_parquet", file_path |-> file_path, data |-> data,
                        overwrite |-> overwrite, npath |-> r.npath,
                        outcome |-> r.outcome, ret |-> NoData]
            /\ UNCHANGED pureVars

\* FileIO.load_json
LoadJson ==
    \E file_path \in LoadPaths :
        LET r == LoadJsonAt(file_path, files)
        IN  /\ ncalls < MaxCalls
            /\ ncalls' = ncalls + 1
            /\ prevDirs' = dirs
            /\ prevFiles' = files
            /\ call' = [op |-> "load_json", file_path |-> file_path, data |-> NoData,
                        overwrite |-> FALSE, npath |-> file_path,
                        outcome |-> r.outcome, ret |-> r.data]
            /\ UNCHANGED <<dirs, files, pc, arg, res>>

\* FileIO.load_parquet
LoadParquet ==
    \E file_path \in LoadPaths :
        LET r == LoadParquetAt(file_path, files)
        IN  /\ ncalls < MaxCalls
            /\ ncalls' = ncalls + 1
            /\ prevDirs' = dirs
            /\ prevFiles' = files
            /\ call' = [op |-> "load_parquet", file_path |-> file_path, data |-> NoData,
                        overwrite |-> FALSE, npath |-> file_path,
                        outcome |-> r.outcome, ret |-> r.data]
            /\ UNCHANGED <<dirs, files, pc, arg, res>>

Next == SaveAsJson \/ SaveAsParquet \/ LoadJson \/ LoadParquet

Spec == Init /\ [][Next]_vars

\* ---------------------------------------------- properties of the Storage Helper

IsSave == call.op \in {"save_as_json", "save_as_parquet"}

\* what existed at the normalized path when the last call started
ExistedBefore == Exists(call.npath, prevDirs, prevFiles)

FileBefore == IsFile(Resolve(call.npath), prevFiles)

DirBefore == Resolve(call.npath) \in prevDirs

FileSystemUnchanged == dirs = prevDirs /\ files = prevFiles

HasNdArray(data) ==
    \E i \in 1..Len(data.recs) : \E f \in DOMAIN data.recs[i] : data.recs[i][f].k = "ndarray"

\* data the operation accepts: json has no encoding of numpy arrays, and
\* save_as_parquet takes a Record Collection
ValidData ==
    IF call.op = "save_as_json" THEN ~HasNdArray(call.data) ELSE call.data.shape = "list"

\* the file the operation is to write for its data
Written ==
    IF call.op = "save_as_json" THEN JsonFile(JsonDump(call.data).toks)
    ELSE ParquetFile(ConvertToDataFrame(call.data.recs))

HoldsNewData ==
    /\ IsFile(Resolve(call.npath), files)
    /\ files[Resolve(call.npath)] = Written

\* C1: a save to a normalized path where a file exists, with overwrite false,
\* fails with FileExistsError and leaves the file system, and so the existing
\* file's contents, exactly as they were; on every repetition of the call.
C1_NoOverwriteFailsUnchanged ==
    (IsSave /\ FileBefore /\ ~call.overwrite)
        => /\ call.outcome = "FileExistsError"
           /\ FileSystemUnchanged
           /\ files[Resolve(call.npath)] = prevFiles[Resolve(call.npath)]

\* C1 witness, the scenario of the spec: [{"v": 1}] saved to "a" twice with overwrite false
C1_Witness ==
    /\ call.op = "save_as_parquet" /\ ncalls = 2
    /\ call.file_path = <<"a">> /\ ~call.overwrite
    /\ call.data = ListData(<<[v |-> PyInt(1)]>>)
    /\ FileBefore
    /\ call.outcome = "FileExistsError"
    /\ LoadParquetAt(call.npath, files).data = ListData(<<[v |-> PyInt(1)]>>)

\* C2 as claimed: whenever something exists at the normalized path and
\* overwrite is true, the save succeeds and the file there holds exactly the
\* new data.
C2_Original ==
    (IsSave /\ ValidData /\ ExistedBefore /\ call.overwrite)
        => (call.outcome = "ok" /\ HoldsNewData)

\* C2 amended: when a regular file exists at the normalized path and overwrite
\* is true, a save of data the operation accepts succeeds and the file holds
\* exactly the new data; when a directory exists there, the removal fails and
\* the file system is left as it was.
C2_OverwriteReplacesFile ==
    /\ (IsSave /\ ValidData /\ FileBefore /\ call.overwrite)
          => (call.outcome = "ok" /\ HoldsNewData /\ dirs = prevDirs)
    /\ (IsSave /\ DirBefore /\ call.overwrite)
          => (call.outcome = "IsADirectoryError" /\ FileSystemUnchanged)

\* C2 witness: a file with other contents is replaced
C2_Witness ==
    /\ IsSave /\ ValidData /\ FileBefore /\ call.overwrite
    /\ prevFiles[Resolve(call.npath)] # Written
    /\ call.outcome = "ok"

NoFileInTheWay == \A q \in Prefixes(Parent(Resolve(call.npath))) : ~IsFile(q, prevFiles)

\* C9 as claimed: when nothing exists at the normalized path, _check_file_path creates
\* exactly the missing parent directory with its intermediate directories, and
\* the write places the file at the normalized path; for every path.
C9_Original ==
    (IsSave /\ ValidData /\ ~ExistedBefore /\ NoFileInTheWay)
        => /\ dirs = prevDirs \cup Prefixes(Parent(Resolve(call.npath)))
           /\ call.outcome = "ok"
           /\ HoldsNewData

\* C10 as claimed: a save that fails, for whatever reason, leaves the file
\* system as it was before the call.
C10_Original == (IsSave /\ call.outcome # "ok") => FileSystemUnchanged

\* ------------------------------------- specification of extension normalization
\* The pure step of lines 38-39 and 106-107, applied to every path of up to
\* MaxPathLen symbols: arg = [op, path], res = the path the save writes.

FsIdle ==
    /\ dirs = {<< >>, <<ROOT>>}
    /\ files = << >>
    /\ prevDirs = {<< >>, <<ROOT>>}
    /\ prevFiles = << >>
    /\ call = NoCall
    /\ ncalls = 0

InitExt ==
    /\ FsIdle
    /\ pc = "start"
    /\ arg \in [op : {"save_as_json", "save_as_parquet"}, path : AllPaths]
    /\ res = << >>

NormalizeJson ==
    /\ pc = "start" /\ arg.op = "save_as_json"
    /\ res' = JsonPath(arg.path)
    /\ pc' = "done"
    /\ UNCHANGED <<arg, dirs, files, prevDirs, prevFiles, call, ncalls>>

NormalizeParquet ==
    /\ pc = "start" /\ arg.op = "save_as_parquet"
    /\ res' = ParquetPath(arg.path)
    /\ pc' = "done"
    /\ UNCHANGED <<arg, dirs, files, prevDirs, prevFiles, call, ncalls>>

NextExt == NormalizeJson \/ NormalizeParquet

SpecExt == InitExt /\ [][NextExt]_vars

TargetExt == IF arg.op = "save_as_json" THEN "json" ELSE "parquet"

\* the path ends in "." followed by the extension
HasFinalExtension(p, ext) == Len(p) >= 2 /\ p[Len(p)] = ext /\ p[Len(p) - 1] = "."

\* C6 as claimed: the path written always has ".<target>" as its final
\* extension: a path that has it already is left unchanged, any other path gets
\* its extension replaced by it or gets it appended.
C6_Original ==
    pc = "done"
        => /\ HasFinalExtension(res, TargetExt)
           /\ HasFinalExtension(arg.path, TargetExt) => res = arg.path
           /\ ~HasFinalExtension(arg.path, TargetExt)
                 => res = SplitextPrefix(arg.path) \o <<".", TargetExt>>

\* --------------------------------------- specification of the columnar round trip
\* arg is a Record Collection; it is saved to "a" with overwrite and the file
\* written is loaded: res = [outcome, data] of load_parquet.

PqValues(f) ==
    IF f = "id" THEN {PyInt(1)}
    ELSE IF f = "v" THEN {PyInt(2)}
    ELSE {PyList(<<1, 2>>), NdArray(<<1, 2>>)}

PqFields == {"id", "v", "content_vector"}

PqRecords ==
    UNION {{r \in [fs -> UNION {PqValues(f) : f \in fs}] : \A f \in fs : r[f] \in PqValues(f)} :
              fs \in SUBSET PqFields \ {{}}}

RECURSIVE Collections(_)
Collections(n) ==
    IF n = 0 THEN {<< >>}
    ELSE Collections(n - 1)
            \cup {Append(c, r) : c \in {x \in Collections(n - 1) : Len(x) = n - 1},
                                 r \in PqRecords}

InitPq ==
    /\ FsIdle
    /\ pc = "start"
    /\ arg \in Collections(MaxRows)
    /\ res = << >>

\* save_as_parquet("a", arg, overwrite=True)
PqSave ==
    /\ pc = "start"
    /\ LET r == SaveAsParquetResult(<<"a">>, ListData(arg), TRUE, dirs, files)
       IN  /\ dirs' = r.dirs
           /\ files' = r.files
           /\ prevDirs' = dirs
           /\ prevFiles' = files
           /\ call' = [op |-> "save_as_parquet", file_path |-> <<"a">>,
                       data |-> ListData(arg), overwrite |-> TRUE, npath |-> r.npath,
                       outcome |-> r.outcome, ret |-> NoData]
    /\ ncalls' = ncalls + 1
    /\ pc' = "saved"
    /\ UNCHANGED <<arg, res>>

\* load_parquet on the file written
PqLoad ==
    /\ pc = "saved"
    /\ res' = LoadParquetAt(call.npath, files)
    /\ pc' = "done"
    /\ UNCHANGED <<arg, dirs, files, prevDirs, prevFiles, call, ncalls>>

NextPq == PqSave \/ PqLoad

SpecPq == InitPq /\ [][NextPq]_vars

\* a value as the claim has it returned: a vector as a plain sequence
Plain(val) == IF val.k = "ndarray" THEN PyList(val.v) ELSE val

\* C3 as claimed: for every Record Collection, also one whose records do not
\* all have the same fields, the save followed by the load succeeds and returns,
\* record by record and in order, exactly the (field, value) pairs saved, with
\* vectors as plain sequences.
C3_Original ==
    pc = "done"
        => /\ call.outcome = "ok"
           /\ res.outcome = "ok"
           /\ Len(res.data.recs) = Len(arg)
           /\ \A i \in 1..Len(arg) :
                 /\ DOMAIN res.data.recs[i] = DOMAIN arg[i]
                 /\ \A f \in DOMAIN arg[i] : res.data.recs[i][f] = Plain(arg[i][f])

\* ----------------------------------------- specification of the Record Normalizer
\* Values are [k, v] with v a sequence of numbers: a string is the sequence of
\* its characters (a digit as itself, any other character as NonDigit), the
\* thumbnail field is the sequence of its entries (the id of the entry's url,
\* NoUrl for an entry without the url key).

NonDigit == 10

NoUrl == 0

PyStr(chars) == [k |-> "str", v |-> chars]

PyBool == [k |-> "bool", v |-> <<1>>]

Thumbnail(entries) == [k |-> "thumbnail", v |-> entries]

Url(id) == [k |-> "url", v |-> <<id>>]

drops == <<"channelId", "isOwnerViewing", "isCrawlable", "allowRatings",
           "author", "isPrivate", "isUnpluggedCorpus", "isLiveContent">>

DropSet == {drops[i] : i \in 1..Len(drops)}

RawFields == DropSet \cup {"thumbnail", "lengthSeconds", "viewCount", "title"}

\* int(x) of a string: defined on a non-empty sequence of digits
Parseable(val) ==
    \/ val.k = "int"
    \/ val.k = "str" /\ Len(val.v) > 0 /\ \A i \in 1..Len(val.v) : val.v[i] < NonDigit

RECURSIVE Digits(_)
Digits(ds) == IF Len(ds) = 0 THEN 0 ELSE 10 * Digits(SubSeq(ds, 1, Len(ds) - 1)) + ds[Len(ds)]

ToInt(val) == IF val.k = "int" THEN val ELSE PyInt(Digits(val.v))

Without(d, f) == [g \in DOMAIN d \ {f} |-> d[g]]

ThumbnailUrlFirstEntry(d) ==
    IF "thumbnail" \notin DOMAIN d THEN [err |-> "KeyError", rec |-> d]
    ELSE IF Len(d["thumbnail"].v) < 1 THEN [err |-> "IndexError", rec |-> d]
    ELSE [err |-> "ok",
          rec |-> ("thumbnail_url" :> IF d["thumbnail"].v[1] = NoUrl THEN PyNone
                                      ELSE Url(d["thumbnail"].v[1])) @@ d]

\* line 140: d['thumbnail_url'] = d['thumbnail']['thumbnails'][1].get('url')
ThumbnailUrl(d) ==
    IF "thumbnail" \notin DOMAIN d THEN [err |-> "KeyError", rec |-> d]
    ELSE IF Len(d["thumbnail"].v) < 2 THEN [err |-> "IndexError", rec |-> d]
    ELSE [err |-> "ok",
          rec |-> ("thumbnail_url" :> IF d["thumbnail"].v[2] = NoUrl THEN PyNone
                                      ELSE Url(d["thumbnail"].v[2])) @@ d]

\* lines 141-142: d[f] = int(d[f])
CoerceInt(d, f) ==
    IF f \notin DOMAIN d THEN [err |-> "KeyError", rec |-> d]
    ELSE IF ~Parseable(d[f]) THEN [err |-> "ValueError", rec |-> d]
    ELSE [err |-> "ok", rec |-> [d EXCEPT ![f] = ToInt(d[f])]]

\* del d[f]
Del(d, f) ==
    IF f \notin DOMAIN d THEN [err |-> "KeyError", rec |-> d]
    ELSE [err |-> "ok", rec |-> Without(d, f)]

\* lines 144-145: for field in drops: del d[field]
RECURSIVE DelDrops(_, _)
DelDrops(d, fs) ==
    IF Len(fs) = 0 THEN [err |-> "ok", rec |-> d]
    ELSE LET one == Del(d, fs[1])
         IN  IF one.err # "ok" THEN one ELSE DelDrops(one.rec, Tail(fs))

\* the body of the loop, lines 140-145: [err, rec], rec being the record as
\* the body leaves it
TransformRecord(d) ==
    LET s1 == ThumbnailUrl(d)
        s2 == CoerceInt(s1.rec, "lengthSeconds")
        s3 == CoerceInt(s2.rec, "viewCount")
        s4 == Del(s3.rec, "thumbnail")
    IN  IF s1.err # "ok" THEN s1
        ELSE IF s2.err # "ok" THEN s2
        ELSE IF s3.err # "ok" THEN s3
        ELSE IF s4.err # "ok" THEN s4
        ELSE DelDrops(s4.rec, drops)

\* the loop over raw_data's items: [outcome, out, after], out the records
\* collected for return, after the records of the input as the loop leaves
\* them; an item whose key is in drops is not in data
RECURSIVE ConvertLoop(_, _, _)
ConvertLoop(keys, vals, i) ==
    IF i > Len(vals) THEN [outcome |-> "ok", out |-> << >>, after |-> << >>]
    ELSE IF keys[i] \in DropSet
    THEN LET rest == ConvertLoop(keys, vals, i + 1)
         IN  [outcome |-> rest.outcome, out |-> rest.out,
              after |-> <<vals[i]>> \o rest.after]
    ELSE LET t == TransformRecord(vals[i])
             rest == ConvertLoop(keys, vals, i + 1)
         IN  IF t.err # "ok"
             THEN [outcome |-> t.err, out |-> << >>,
                   after |-> <<t.rec>> \o SubSeq(vals, i + 1, Len(vals))]
             ELSE [outcome |-> rest.outcome,
                   out |-> IF rest.outcome = "ok" THEN <<t.rec>> \o rest.out ELSE << >>,
                   after |-> <<t.rec>> \o rest.after]

ConvertAnyIterable(raw_data) ==
    ConvertLoop([i \in 1..Len(raw_data.vals) |-> "item"], raw_data.vals, 1)

\* Utilities.convert_raw_data on raw_data = [kind, keys, vals]
ConvertRawData(raw_data) ==
    IF raw_data.kind # "dict"
    THEN [outcome |-> "TypeError", out |-> << >>, after |-> raw_data.vals]
    ELSE ConvertLoop(raw_data.keys, raw_data.vals, 1)

Entries(n, url2) == [i \in 1..n |-> IF i = 2 /\ ~url2 THEN NoUrl ELSE i]

RawRecord(n, url2, ls, vc, missing) ==
    [f \in RawFields \ missing |->
        IF f = "thumbnail" THEN Thumbnail(Entries(n, url2))
        ELSE IF f = "lengthSeconds" THEN PyStr(ls)
        ELSE IF f = "viewCount" THEN PyStr(vc)
        ELSE IF f = "title" THEN PyStr(<<NonDigit>>)
        ELSE PyBool]

\* "120" and "1x"; "5" and ""
LengthValues == {<<1, 2, 0>>, <<1, NonDigit>>}

ViewValues == {<<5>>, << >>}

RawRecords ==
    {RawRecord(n, url2, ls, vc, missing) :
        n \in 0..MaxThumbs, url2 \in BOOLEAN, ls \in LengthValues, vc \in ViewValues,
        missing \in {{}} \cup {{f} : f \in DropSet}}

\* item identifiers: an ordinary one, and one that is also the name of a field
ItemKeys == {<<"v1">>, <<"author">>, <<"v1", "v2">>, <<"v1", "author">>}

RawInputs ==
    {[kind |-> "dict", keys |-> << >>, vals |-> << >>]}
      \cup {[kind |-> "dict", keys |-> ks, vals |-> vs] :
               ks \in ItemKeys, vs \in UNION {[1..m -> RawRecords] : m \in 1..2}}
      \cup {[kind |-> "list", keys |-> << >>, vals |-> vs] :
               vs \in UNION {[1..m -> RawRecords] : m \in 0..1}}

WellTyped(raw_data) == raw_data.kind = "list" \/ Len(raw_data.keys) = Len(raw_data.vals)

InitConv ==
    /\ FsIdle
    /\ pc = "start"
    /\ arg \in {x \in RawInputs : WellTyped(x)}
    /\ res = << >>

ConvertRawDataCall ==
    /\ pc = "start"
    /\ res' = ConvertRawData(arg)
    /\ pc' = "done"
    /\ UNCHANGED <<arg, dirs, files, prevDirs, prevFiles, call, ncalls>>

NextConv == ConvertRawDataCall

SpecConv == InitConv /\ [][NextConv]_vars

\* ----------------------------------------- properties of the Record Normalizer

HasTwoThumbnails(d) == "thumbnail" \in DOMAIN d /\ Len(d["thumbnail"].v) >= 2

SecondHasUrl(d) == HasTwoThumbnails(d) /\ d["thumbnail"].v[2] # NoUrl

IntsParse(d) == Parseable(d["lengthSeconds"]) /\ Parseable(d["viewCount"])

HasAllDrops(d) == DropSet \subseteq DOMAIN d

WellFormed(d) == HasTwoThumbnails(d) /\ SecondHasUrl(d) /\ IntsParse(d) /\ HasAllDrops(d)

\* a record as the claim has it returned
Normalized(out, d) ==
    /\ DOMAIN out \cap (DropSet \cup {"thumbnail"}) = {}
    /\ "thumbnail_url" \in DOMAIN out /\ out["thumbnail_url"] = Url(d["thumbnail"].v[2])
    /\ out["lengthSeconds"] = PyInt(Digits(d["lengthSeconds"].v))
    /\ out["viewCount"] = PyInt(Digits(d["viewCount"].v))

\* C5 as claimed: a mapping of N well-formed records, whatever its keys, yields
\* exactly N records, one per value, each without the eight dropped fields and
\* the thumbnail field, with thumbnail_url the url of the second thumbnail
\* entry and lengthSeconds and viewCount as integers.
C5_Original ==
    (pc = "done" /\ arg.kind = "dict" /\ \A i \in 1..Len(arg.vals) : WellFormed(arg.vals[i]))
        => /\ res.outcome = "ok"
           /\ Len(res.out) = Len(arg.vals)
           /\ \A i \in 1..Len(arg.vals) : Normalized(res.out[i], arg.vals[i])

\* the records the key filter of line 138 keeps
Kept == {i \in 1..Len(arg.vals) : arg.keys[i] \notin DropSet}

Raises(d) == ~HasTwoThumbnails(d) \/ ~IntsParse(d) \/ ~HasAllDrops(d)

C8_NonMappingTypeError ==
    (pc = "done" /\ arg.kind # "dict")
        => /\ res.outcome = "TypeError"
           /\ res.out = << >>
           /\ res.after = arg.vals

\* C8 witness: a list holding one well-formed record
C8_Witness ==
    /\ pc = "done" /\ arg.kind = "list" /\ Len(arg.vals) = 1
    /\ WellFormed(arg.vals[1])
    /\ res.outcome = "TypeError"
    /\ res.after[1] = arg.vals[1]

====
